---- MODULE Spec2Model ----
(***************************************************************************)
(* Model of src/main.py: the ImageProcessor filter (Gaussian low-pass,     *)
(* saturating high-pass, contrast/brightness, one colour channel) and the  *)
(* HighGUI shell around it (window, four trackbars, key-poll loop).        *)
(*                                                                         *)
(* Images are sequences of rows of 8-bit samples; a 3-channel image is a   *)
(* triple of planes <<blue, green, red>>.  None (a failed cv2.imread, a    *)
(* frame not yet produced, a file not yet written) is the empty sequence.  *)
(***************************************************************************)
EXTENDS Integers, Sequences, FiniteSets, TLC

VARIABLES
    pc,             \* position of main(): see the actions below
    image,          \* processor.image (None when imread failed)
    ksize_index,    \* processor.ksize_index
    alpha,          \* processor.alpha
    beta,           \* processor.beta
    color_channel,  \* processor.color_channel
    window,         \* TRUE while the window 'Image Processor' exists and is visible
    trackbar,       \* position of each trackbar; NoTrackbar before it is created
    pending,        \* a trackbar event has fired and its callback has not run yet
    shown,          \* the frame last passed to cv2.imshow (None before the first)
    processed_image,\* main()'s local variable processed_image
    saved,          \* the frame cv2.imwrite last wrote to images/processed.jpg (None: no file)
    key,            \* the last value returned by cv2.waitKey
    stdout,         \* number of "Image saved to ..." lines printed
    written,        \* number of successful cv2.imwrite calls
    warnings,       \* number of "Trackbar error: ..." lines printed
    events,         \* number of user trackbar moves so far
    notifyOnCreate, \* HighGUI build: createTrackbar calls onChange when it sets the value
    notifyOnSet     \* HighGUI build: setTrackbarPos calls onChange when the position changes

vars == <<pc, image, ksize_index, alpha, beta, color_channel, window, trackbar,
          pending, shown, processed_image, saved, key, stdout, written,
          warnings, events, notifyOnCreate, notifyOnSet>>

----------------------------------------------------------------------------
(* Bounds of the model. *)

ImgW == 2            \* width of the source images explored
ImgH == 1            \* height of the source images explored
MaxEvents == 2       \* user trackbar moves per run
MaxSaves == 2        \* presses of 's' per run
MaxWarnings == 1     \* display errors per run

PixelVals == {40, 200}
NoImage == <<>>
SourceImages == [1..ImgH -> [1..ImgW -> PixelVals]]

----------------------------------------------------------------------------
(* ImageProcessor.process_image *)

kernel_sizes == <<3, 5, 7, 9, 11, 13, 15>>

\* Python list indexing, seq[i] with i possibly negative (i in -Len..Len-1).
PyIndex(seq, i) == IF i < 0 THEN seq[Len(seq) + i + 1] ELSE seq[i + 1]

\* sigma = 0.3 * ((ksize - 1) * 0.5 - 1) + 0.8, in hundredths.
Sigma100(ksize) == (30 * ((ksize - 1) * 5 - 10)) \div 10 + 80

\* A kernel whose weights are truncated and not renormalised (they sum to less
\* than 256).
GaussKernelTruncated(ksize) == [j \in 1..ksize |-> 256 \div ksize - 1]

\* The normalised 1-D Gaussian kernel of cv2.GaussianBlur for 8-bit images, in
\* 8-bit fixed point (the weights of one kernel sum to 256), for the sigma above.
GaussKernel(ksize) ==
    CASE Sigma100(ksize) = 80  -> <<61, 134, 61>>
      [] Sigma100(ksize) = 110 -> <<18, 63, 94, 63, 18>>
      [] Sigma100(ksize) = 140 -> <<7, 27, 57, 74, 57, 27, 7>>
      [] Sigma100(ksize) = 170 -> <<4, 13, 30, 51, 60, 51, 30, 13, 4>>
      [] Sigma100(ksize) = 200 -> <<2, 7, 17, 31, 45, 52, 45, 31, 17, 7, 2>>
      [] Sigma100(ksize) = 230 -> <<1, 4, 10, 19, 31, 41, 44, 41, 31, 19, 10, 4, 1>>
      [] Sigma100(ksize) = 260 -> <<1, 3, 6, 12, 20, 29, 37, 40, 37, 29, 20, 12, 6, 3, 1>>

\* cv2 default border policy BORDER_REFLECT_101 on a 0-based coordinate.
RECURSIVE BorderInterpolate(_, _)
BorderInterpolate(p, len) ==
    IF len = 1 THEN 0
    ELSE IF p < 0 THEN BorderInterpolate(-p, len)
    ELSE IF p >= len THEN BorderInterpolate(2 * (len - 1) - p, len)
    ELSE p

RECURSIVE SumTo(_, _)
SumTo(f, n) == IF n = 0 THEN 0 ELSE f[n] + SumTo(f, n - 1)

\* cv2.GaussianBlur(img, (ksize, ksize), sigma): separable convolution, rounded.
GaussianBlur(img, ksize) ==
    LET h == Len(img)
        w == Len(img[1])
        r == (ksize - 1) \div 2
        g == GaussKernel(ksize)
        rowPass == [y \in 1..h |-> [x \in 1..w |->
            SumTo([j \in 1..ksize |->
                g[j] * img[y][BorderInterpolate(x - 1 + j - 1 - r, w) + 1]], ksize)]]
    IN  [y \in 1..h |-> [x \in 1..w |->
            (SumTo([i \in 1..ksize |->
                g[i] * rowPass[BorderInterpolate(y - 1 + i - 1 - r, h) + 1][x]], ksize)
             + 32768) \div 65536]]

\* 8-bit arithmetic that wraps modulo 256 instead of saturating.
SaturateWrap(v) == v % 256

\* saturate_cast<uchar>
Saturate(v) == IF v < 0 THEN 0 ELSE IF v > 255 THEN 255 ELSE v

Abs(v) == IF v < 0 THEN -v ELSE v

\* cv2.subtract on 8-bit images: per-pixel saturating difference.
Subtract(a, b) ==
    [y \in 1..Len(a) |-> [x \in 1..Len(a[1]) |-> Saturate(a[y][x] - b[y][x])]]

\* A scaling that drops the offset.
ConvertScaleNoBeta(src, a, b) ==
    [y \in 1..Len(src) |-> [x \in 1..Len(src[1]) |->
        IF Abs(a * src[y][x]) > 255 THEN 255 ELSE Abs(a * src[y][x])]]

\* cv2.convertScaleAbs: per pixel saturate(|alpha * src + beta|).
ConvertScaleAbs(src, a, b) ==
    [y \in 1..Len(src) |-> [x \in 1..Len(src[1]) |-> Saturate(Abs(a * src[y][x] + b))]]

\* np.ones in place of np.zeros.
Ones(h, w) == [c \in 1..3 |-> [y \in 1..h |-> [x \in 1..w |-> 1]]]

\* np.zeros((h, w, 3), dtype=np.uint8)
Zeros(h, w) == [c \in 1..3 |-> [y \in 1..h |-> [x \in 1..w |-> 0]]]

\* colored_image[:, :, channel] = plane, channel with Python indexing.
SetChannel(img3, channel, plane) ==
    [img3 EXCEPT ![IF channel < 0 THEN 3 + channel + 1 ELSE channel + 1] = plane]

HighPass(img, idx) ==
    Subtract(img, GaussianBlur(img, PyIndex(kernel_sizes, idx)))

process_image(img, idx, a, b, channel) ==
    LET high_pass == HighPass(img, idx)
        high_pass_contrast == ConvertScaleAbs(high_pass, a, b)
    IN  SetChannel(Zeros(Len(img), Len(img[1])), channel, high_pass_contrast)

----------------------------------------------------------------------------
(* The HighGUI window, its trackbars and the keyboard *)

TrackbarNames == <<"Kernel Size", "Alpha", "Beta", "Color Channel">>

\* cv2.getTrackbarPos of a trackbar that does not exist.
NoTrackbar == -1

\* createTrackbar(name, window, value, count, onChange): the value and the count.
TrackbarValue == [n \in {TrackbarNames[i] : i \in 1..4} |->
    CASE n = "Kernel Size" -> 4
      [] n = "Alpha" -> 4
      [] n = "Beta" -> 10
      [] n = "Color Channel" -> 1]

TrackbarCount == [n \in {TrackbarNames[i] : i \in 1..4} |->
    CASE n = "Kernel Size" -> Len(kernel_sizes) - 1
      [] n = "Alpha" -> 10
      [] n = "Beta" -> 255
      [] n = "Color Channel" -> 2]

\* A trackbar keeps its position inside 0..count.
ClampPos(n, v) == IF v < 0 THEN 0 ELSE IF v > TrackbarCount[n] THEN TrackbarCount[n] ELSE v

\* cv2.waitKey: no key within the timeout, and ord('s').
NoKey == -1
KeyS == 115
OtherKeys == {113, 83}       \* 'q' and 'S'

\* Positions a user drags a trackbar to.
UserPositions == [n \in {TrackbarNames[i] : i \in 1..4} |->
    CASE n = "Kernel Size" -> {0, 6}
      [] n = "Alpha" -> {0, 10}
      [] n = "Beta" -> {255}
      [] n = "Color Channel" -> {2}]

\* The files images/steve.jpg may hold; NoImage: missing or undecodable.
DiskImages == {NoImage, <<<<40, 200>>, <<200, 200>>>>}

\* Steps of on_trackbar_change at which the display subsystem may raise cv2.error:
\* 1 getWindowProperty, 2..5 the four getTrackbarPos, 6 process_image, 7 imshow.
HandlerSteps == 1..7

----------------------------------------------------------------------------
(* on_trackbar_change: the callback of the four trackbars.  tb is the      *)
(* trackbar positions it reads; fail is the step at which HighGUI raises   *)
(* cv2.error (0: at none).  process_image raises cv2.error by itself when  *)
(* processor.image is None.                                                *)

RaiseAt(fail) == IF image = NoImage /\ (fail = 0 \/ fail > 6) THEN 6 ELSE fail

\* A handler that reads the four trackbars before it checks the window: the
\* reads (steps 2..5) do not depend on the window being there.
StepDoneReadFirst(fail, n) ==
    /\ RaiseAt(fail) # 1
    /\ (window \/ n \in 2..5)
    /\ (RaiseAt(fail) = 0 \/ RaiseAt(fail) > n)

\* Step n of the handler ran to completion.
StepDone(fail, n) ==
    /\ RaiseAt(fail) # 1
    /\ window
    /\ (RaiseAt(fail) = 0 \/ RaiseAt(fail) > n)

Raised(fail) == RaiseAt(fail) = 1 \/ (window /\ RaiseAt(fail) # 0)

\* A try block that covers only the cv2.imshow call.
CaughtDrawOnly(step) == step = 7

\* The steps inside the handler's try block, whose cv2.error the except clause
\* turns into the printed warning.
Caught(step) == step \in HandlerSteps

\* The cv2.error leaves the handler and unwinds main().
Propagates(fail) == Raised(fail) /\ ~Caught(RaiseAt(fail))

on_trackbar_change(tb, fail) ==
    /\ ksize_index' = IF StepDone(fail, 2) THEN tb["Kernel Size"] ELSE ksize_index
    /\ alpha' = IF StepDone(fail, 3) THEN tb["Alpha"] ELSE alpha
    /\ beta' = IF StepDone(fail, 4) THEN tb["Beta"] ELSE beta
    /\ color_channel' = IF StepDone(fail, 5) THEN tb["Color Channel"] ELSE color_channel
    /\ shown' = IF StepDone(fail, 7)
                THEN process_image(image, ksize_index', alpha', beta', color_channel')
                ELSE shown
    /\ warnings' = IF Raised(fail) /\ Caught(RaiseAt(fail)) THEN warnings + 1 ELSE warnings

\* Where main() is after a call of the handler: at next, unless a cv2.error left
\* the handler, which nothing in main() catches (the interpreter exits and its
\* window goes with it).
Unwind(fail, next) ==
    /\ pc' = IF Propagates(fail) THEN "crashed" ELSE next
    /\ window' = IF Propagates(fail) THEN FALSE ELSE window

HandlerIdle == UNCHANGED <<ksize_index, alpha, beta, color_channel, shown, warnings>>

----------------------------------------------------------------------------
(* main() *)

CreatePc == <<"create1", "create2", "create3", "create4">>
SetPc == <<"set1", "set2", "set3", "set4">>

\* State after processor = ImageProcessor("images/steve.jpg").
Init ==
    /\ pc = "namedWindow"
    /\ image \in DiskImages
    /\ ksize_index = 0
    /\ alpha = 1
    /\ beta = 0
    /\ color_channel = 1
    /\ window = FALSE
    /\ trackbar = [n \in {TrackbarNames[i] : i \in 1..4} |-> NoTrackbar]
    /\ pending = FALSE
    /\ shown = NoImage
    /\ processed_image = NoImage
    /\ saved = NoImage
    /\ key = NoKey
    /\ stdout = 0
    /\ written = 0
    /\ warnings = 0
    /\ events = 0
    /\ notifyOnCreate \in BOOLEAN
    /\ notifyOnSet \in BOOLEAN
    /\ notifyOnCreate => notifyOnSet

\* cv2.namedWindow('Image Processor')
NamedWindow ==
    /\ pc = "namedWindow"
    /\ window' = TRUE
    /\ pc' = CreatePc[1]
    /\ UNCHANGED <<image, ksize_index, alpha, beta, color_channel, trackbar, pending,
                   shown, processed_image, saved, key, stdout, written, warnings,
                   events, notifyOnCreate, notifyOnSet>>

\* cv2.createTrackbar(name, 'Image Processor', value, count, on_trackbar_change):
\* the trackbar appears at position 0 and is moved to value.
CreateTrackbar(i) ==
    LET n == TrackbarNames[i]
        tb == [trackbar EXCEPT ![n] = ClampPos(n, TrackbarValue[n])]
    IN  /\ pc = CreatePc[i]
        /\ trackbar' = tb
        /\ IF notifyOnCreate /\ tb[n] # 0
           THEN /\ on_trackbar_change(tb, 0)
                /\ Unwind(0, IF i < 4 THEN CreatePc[i + 1] ELSE SetPc[1])
           ELSE /\ HandlerIdle
                /\ pc' = IF i < 4 THEN CreatePc[i + 1] ELSE SetPc[1]
                /\ UNCHANGED window
        /\ UNCHANGED <<image, pending, processed_image, saved, key, stdout,
                       written, events, notifyOnCreate, notifyOnSet>>

\* The processor field main() passes to the i-th cv2.setTrackbarPos.
ProcessorField(i) ==
    CASE i = 1 -> ksize_index
      [] i = 2 -> alpha
      [] i = 3 -> beta
      [] i = 4 -> color_channel

\* main() without the cv2.setTrackbarPos call.
SetTrackbarPosSkipped(i) ==
    /\ pc = SetPc[i]
    /\ pc' = IF i < 4 THEN SetPc[i + 1] ELSE "render"
    /\ UNCHANGED <<image, ksize_index, alpha, beta, color_channel, window, trackbar,
                   pending, shown, processed_image, saved, key, stdout, written,
                   warnings, events, notifyOnCreate, notifyOnSet>>

\* cv2.setTrackbarPos(name, 'Image Processor', processor.<field>)
SetTrackbarPos(i) ==
    LET n == TrackbarNames[i]
        tb == [trackbar EXCEPT ![n] = ClampPos(n, ProcessorField(i))]
    IN  /\ pc = SetPc[i]
        /\ trackbar' = tb
        /\ IF notifyOnSet /\ tb[n] # trackbar[n]
           THEN /\ on_trackbar_change(tb, 0)
                /\ Unwind(0, IF i < 4 THEN SetPc[i + 1] ELSE "render")
           ELSE /\ HandlerIdle
                /\ pc' = IF i < 4 THEN SetPc[i + 1] ELSE "render"
                /\ UNCHANGED window
        /\ UNCHANGED <<image, pending, processed_image, saved, key, stdout,
                       written, events, notifyOnCreate, notifyOnSet>>

\* processed_image = processor.process_image(); cv2.imshow(...).  With
\* processor.image None, cv2.GaussianBlur raises cv2.error, nothing catches it
\* and the interpreter exits (its window goes with it).
InitialRender ==
    /\ pc = "render"
    /\ IF image = NoImage
       THEN /\ pc' = "crashed"
            /\ window' = FALSE
            /\ UNCHANGED <<processed_image, shown>>
       ELSE /\ processed_image' = process_image(image, ksize_index, alpha, beta, color_channel)
            /\ shown' = processed_image'
            /\ pc' = "loop"
            /\ UNCHANGED window
    /\ UNCHANGED <<image, ksize_index, alpha, beta, color_channel, trackbar, pending,
                   saved, key, stdout, written, warnings, events,
                   notifyOnCreate, notifyOnSet>>

\* The user drags trackbar n to position v: HighGUI queues the change event.
UserMoveTrackbar(n, v) ==
    /\ pc = "loop"
    /\ window
    /\ ~pending
    /\ events < MaxEvents
    /\ v # trackbar[n]
    /\ trackbar' = [trackbar EXCEPT ![n] = v]
    /\ pending' = TRUE
    /\ events' = events + 1
    /\ UNCHANGED <<pc, image, ksize_index, alpha, beta, color_channel, window, shown,
                   processed_image, saved, key, stdout, written, warnings,
                   notifyOnCreate, notifyOnSet>>

\* The user closes the window.
UserCloseWindow ==
    /\ pc = "loop"
    /\ window
    /\ window' = FALSE
    /\ UNCHANGED <<pc, image, ksize_index, alpha, beta, color_channel, trackbar, pending,
                   shown, processed_image, saved, key, stdout, written, warnings,
                   events, notifyOnCreate, notifyOnSet>>

\* HighGUI runs the callback of the queued trackbar event (inside cv2.waitKey).
Dispatch(fail) ==
    /\ pc = "loop"
    /\ pending
    /\ fail # 0 => warnings < MaxWarnings
    /\ on_trackbar_change(trackbar, fail)
    /\ Unwind(fail, "loop")
    /\ pending' = FALSE
    /\ UNCHANGED <<image, trackbar, processed_image, saved, key, stdout,
                   written, events, notifyOnCreate, notifyOnSet>>

\* A loop whose second branch is a plain else: no key also breaks.
PollNoKeyBreaks ==
    /\ pc = "loop"
    /\ key' = NoKey
    /\ window' = FALSE
    /\ pc' = "done"
    /\ UNCHANGED <<image, ksize_index, alpha, beta, color_channel, trackbar, pending,
                   shown, processed_image, saved, stdout, written, warnings, events,
                   notifyOnCreate, notifyOnSet>>

\* key = cv2.waitKey(1) returned -1: neither branch is taken.
PollNoKey ==
    /\ pc = "loop"
    /\ key' = NoKey
    /\ UNCHANGED <<pc, image, ksize_index, alpha, beta, color_channel, window, trackbar,
                   pending, shown, processed_image, saved, stdout, written, warnings,
                   events, notifyOnCreate, notifyOnSet>>

\* A save branch that also draws the frame it saved.
PollSaveRedraws(ok) ==
    /\ pc = "loop"
    /\ stdout < MaxSaves
    /\ key' = KeyS
    /\ saved' = IF ok THEN processed_image ELSE saved
    /\ written' = IF ok THEN written + 1 ELSE written
    /\ stdout' = stdout + 1
    /\ shown' = processed_image
    /\ UNCHANGED <<pc, image, ksize_index, alpha, beta, color_channel, window, trackbar,
                   pending, processed_image, warnings, events,
                   notifyOnCreate, notifyOnSet>>

\* A loop that saves and then falls into the break (two ifs instead of if/elif).
PollSaveThenExit(ok) ==
    /\ pc = "loop"
    /\ stdout < MaxSaves
    /\ key' = KeyS
    /\ saved' = IF ok THEN processed_image ELSE saved
    /\ written' = IF ok THEN written + 1 ELSE written
    /\ stdout' = stdout + 1
    /\ window' = FALSE
    /\ pc' = "done"
    /\ UNCHANGED <<image, ksize_index, alpha, beta, color_channel, trackbar,
                   pending, shown, processed_image, warnings, events,
                   notifyOnCreate, notifyOnSet>>

\* key == ord('s'): cv2.imwrite(save_path, processed_image), which returns
\* whether the file was written (ok), then the print.
PollSave(ok) ==
    /\ pc = "loop"
    /\ stdout < MaxSaves
    /\ key' = KeyS
    /\ saved' = IF ok THEN processed_image ELSE saved
    /\ written' = IF ok THEN written + 1 ELSE written
    /\ stdout' = stdout + 1
    /\ UNCHANGED <<pc, image, ksize_index, alpha, beta, color_channel, window, trackbar,
                   pending, shown, processed_image, warnings, events,
                   notifyOnCreate, notifyOnSet>>

\* Any other key: break, then cv2.destroyAllWindows().
PollExit(k) ==
    /\ pc = "loop"
    /\ key' = k
    /\ window' = FALSE
    /\ pc' = "done"
    /\ UNCHANGED <<image, ksize_index, alpha, beta, color_channel, trackbar, pending,
                   shown, processed_image, saved, stdout, written, warnings, events,
                   notifyOnCreate, notifyOnSet>>

Next ==
    \/ NamedWindow
    \/ \E i \in 1..4 : CreateTrackbar(i)
    \/ \E i \in 1..4 : SetTrackbarPos(i)
    \/ InitialRender
    \/ \E i \in 1..4 : \E v \in UserPositions[TrackbarNames[i]] :
           UserMoveTrackbar(TrackbarNames[i], v)
    \/ UserCloseWindow
    \/ \E fail \in {0} \cup HandlerSteps : Dispatch(fail)
    \/ PollNoKey
    \/ \E ok \in BOOLEAN : PollSave(ok)
    \/ \E k \in OtherKeys : PollExit(k)

Spec == Init /\ [][Next]_vars

----------------------------------------------------------------------------
(* process_image on its own: the processor's fields are assigned as on     *)
(* lines 63-66 and process_image is called as on line 67, for every source *)
(* image of SourceImages and every parameter set of the samples below.     *)

AlphaSamples == {0, 1, 10}
BetaSamples == {0, 10, 255}

RenderInit ==
    /\ pc = "test"
    /\ image \in SourceImages
    /\ ksize_index = 0
    /\ alpha = 1
    /\ beta = 0
    /\ color_channel = 1
    /\ window = FALSE
    /\ trackbar = [n \in {TrackbarNames[i] : i \in 1..4} |-> NoTrackbar]
    /\ pending = FALSE
    /\ shown = NoImage
    /\ processed_image = NoImage
    /\ saved = NoImage
    /\ key = NoKey
    /\ stdout = 0
    /\ written = 0
    /\ warnings = 0
    /\ events = 0
    /\ notifyOnCreate = FALSE
    /\ notifyOnSet = FALSE

Render(idx, a, b, channel) ==
    /\ pc = "test"
    /\ ksize_index' = idx
    /\ alpha' = a
    /\ beta' = b
    /\ color_channel' = channel
    /\ processed_image' = process_image(image, ksize_index', alpha', beta', color_channel')
    /\ pc' = "rendered"
    /\ UNCHANGED <<image, window, trackbar, pending, shown, saved, key, stdout,
                   written, warnings, events, notifyOnCreate, notifyOnSet>>

RenderNext ==
    \E idx \in 0..(Len(kernel_sizes) - 1) : \E a \in AlphaSamples :
        \E b \in BetaSamples : \E channel \in 0..2 : Render(idx, a, b, channel)

RenderSpec == RenderInit /\ [][RenderNext]_vars

----------------------------------------------------------------------------
(* Properties of process_image (checked under RenderSpec) *)

Height(img) == Len(img)
Width(img) == Len(img[1])
Pixels(img) == {<<y, x>> : y \in 1..Height(img), x \in 1..Width(img)}
Uniform(img) == \A p, q \in Pixels(img) : img[p[1]][p[2]] = img[q[1]][q[2]]
Max(a, b) == IF a > b THEN a ELSE b
Min(a, b) == IF a < b THEN a ELSE b
Rendered == pc = "rendered"
Selected == color_channel + 1

\* C3 as stated: for a uniform source image and any valid kernelSizeIndex, alpha,
\* beta and channel, the rendered image is zero in every channel at every pixel.
C3_UniformAllZero ==
    (Rendered /\ Uniform(image)) =>
        \A c \in 1..3 : \A p \in Pixels(image) : processed_image[c][p[1]][p[2]] = 0

\* C3 as amended: for a uniform source image the rendered image holds beta at
\* every pixel of the selected channel and zero in the two other channels, for
\* every kernelSizeIndex and alpha; it is all zero exactly when beta = 0.
C3_UniformIsBeta ==
    (Rendered /\ Uniform(image)) =>
        /\ \A c \in 1..3 : \A p \in Pixels(image) :
              processed_image[c][p[1]][p[2]] = IF c = Selected THEN beta ELSE 0
        /\ (processed_image = Zeros(Height(image), Width(image))) <=> (beta = 0)

C3_Witness ==
    Rendered /\ Uniform(image) /\ alpha = 10 /\ beta = 10 /\ ksize_index = 6

\* C8: in the rendered image the two channels other than the selected one are
\* zero at every pixel, and each channel has the height and width of the source.
C8_ChannelIsolation ==
    Rendered =>
        /\ Len(processed_image) = 3
        /\ \A c \in 1..3 :
              /\ Height(processed_image[c]) = Height(image)
              /\ \A y \in 1..Height(image) : Len(processed_image[c][y]) = Width(image)
              /\ c # Selected =>
                    \A p \in Pixels(image) : processed_image[c][p[1]][p[2]] = 0

C8_Witness ==
    /\ Rendered
    /\ ~Uniform(image)
    /\ \E p \in Pixels(image) : processed_image[Selected][p[1]][p[2]] > 0

\* C9: with alpha = 0 every pixel of the selected channel equals beta, whatever
\* the source image, the kernelSizeIndex and the channel.
C9_AlphaZeroIsBeta ==
    (Rendered /\ alpha = 0) =>
        \A p \in Pixels(image) : processed_image[Selected][p[1]][p[2]] = beta

C9_Witness ==
    Rendered /\ alpha = 0 /\ beta = 10 /\ ~Uniform(image)

\* C10: at every pixel the high-pass value is max(0, source - lowPass) and the
\* selected channel holds min(255, alpha * high + beta); both lie in 0..255.
C10_Saturating ==
    Rendered =>
        \A p \in Pixels(image) :
            LET src == image[p[1]][p[2]]
                low == GaussianBlur(image, PyIndex(kernel_sizes, ksize_index))[p[1]][p[2]]
                high == HighPass(image, ksize_index)[p[1]][p[2]]
                out == processed_image[Selected][p[1]][p[2]]
            IN  /\ high = Max(0, src - low)
                /\ high \in 0..255
                /\ out = Min(255, alpha * high + beta)
                /\ out \in 0..255

\* Both ends saturate in one image: a pixel darker than its low-pass and a pixel
\* whose alpha * high + beta exceeds 255.
C10_Witness ==
    /\ Rendered
    /\ \E p \in Pixels(image) :
          image[p[1]][p[2]] <
              GaussianBlur(image, PyIndex(kernel_sizes, ksize_index))[p[1]][p[2]]
    /\ \E p \in Pixels(image) :
          alpha * HighPass(image, ksize_index)[p[1]][p[2]] + beta > 255

----------------------------------------------------------------------------
(* Properties of the shell (checked under Spec) *)

Starting == {"namedWindow", "render"} \cup {CreatePc[i] : i \in 1..4}
                \cup {SetPc[i] : i \in 1..4}

\* STARTING, DISPLAYING, TERMINATED of the shell's state machine; FAILED is the
\* interpreter exiting on an uncaught exception.  SAVING is the 's' branch of one
\* loop iteration, inside PollSave.
ShellState(p) ==
    CASE p \in Starting -> "STARTING"
      [] p = "loop" -> "DISPLAYING"
      [] p = "done" -> "TERMINATED"
      [] p = "crashed" -> "FAILED"

\* C1 as stated: a press of 's' that writes the file writes the frame that the
\* window shows at that moment.
C1_SaveWritesShownFrame ==
    [][(key' = KeyS /\ written' = written + 1) => saved' = shown']_vars

\* C2 as stated: when the poll loop is entered and no control has been moved, the
\* processor's fields and the four trackbar positions are 4, 4, 10, 1 and the frame
\* shown is the render of those values.
C2_InitialState ==
    (pc = "loop" /\ events = 0) =>
        /\ ksize_index = 4 /\ alpha = 4 /\ beta = 10 /\ color_channel = 1
        /\ trackbar = TrackbarValue
        /\ shown = process_image(image, 4, 4, 10, 1)

\* C4 as stated: when the source image failed to load, no window and no trackbar
\* is ever created, no frame is drawn and the poll loop is not entered.
C4_NoDisplayOnLoadFailure ==
    image = NoImage =>
        /\ ~window
        /\ \A i \in 1..4 : trackbar[TrackbarNames[i]] = NoTrackbar
        /\ shown = NoImage
        /\ pc # "loop"

\* C5: in the poll loop a key other than 's' ends the loop in the iteration that
\* reads it, with the window released and main() finished; an iteration that reads
\* no key (or 's') stays in the loop, and nothing else leaves it.
C5_ExitOnOtherKey ==
    [][pc = "loop" =>
        /\ key' \notin {NoKey, KeyS} => (pc' = "done" /\ ~window')
        /\ key' \in {NoKey, KeyS} => pc' = "loop"]_vars

C5_Witness ==
    pc = "done" /\ key \in OtherKeys /\ ~window /\ events > 0

\* C6: a cv2.error raised at any step of the trackbar handler is printed as a
\* warning and does not leave the handler: main() goes on where it was, and in
\* the poll loop it stays in the loop.  A failed save does not end the loop
\* either; the only exception that ends the process is the one of the initial
\* render when the image was not loaded.
C6_HandlerErrorsContained ==
    [][/\ warnings' # warnings =>
            /\ pc' # "crashed"
            /\ pc = "loop" => (pc' = "loop" /\ window' = window)
       /\ (pc = "loop" /\ stdout' # stdout) => pc' = "loop"
       /\ pc = "loop" => pc' \in {"loop", "done"}
       /\ pc' = "crashed" => (pc = "render" /\ image = NoImage)]_vars

C6_Witness ==
    pc = "loop" /\ warnings = MaxWarnings /\ written < stdout /\ window

\* C7: the shell moves STARTING -> DISPLAYING -> TERMINATED only: a press of 's'
\* saves and stays in DISPLAYING, any number of times; TERMINATED is entered
\* only from DISPLAYING on a key other than 's'; and after TERMINATED nothing
\* changes any more (no render, draw, save or parameter update).
C7_StateMachine ==
    [][/\ <<ShellState(pc), ShellState(pc')>> \in
              {<<"STARTING", "STARTING">>, <<"STARTING", "DISPLAYING">>,
               <<"STARTING", "FAILED">>, <<"DISPLAYING", "DISPLAYING">>,
               <<"DISPLAYING", "TERMINATED">>}
       /\ (pc = "loop" /\ key' = KeyS) => pc' = "loop"
       /\ pc' = "done" => (pc = "loop" /\ key' \notin {NoKey, KeyS})
       /\ (pc \in Starting /\ pc' = "loop") => (pc = "render" /\ shown' # NoImage)]_vars

C7_Witness ==
    pc = "done" /\ stdout >= 2 /\ written >= 1

----------------------------------------------------------------------------
(* Properties of the handler and of the parameter state (checked under Spec) *)

\* ParameterState and the four control positions, in the order of TrackbarNames.
Params == <<ksize_index, alpha, beta, color_channel>>
Positions == [i \in 1..4 |-> trackbar[TrackbarNames[i]]]

\* A step in which HighGUI runs the handler for a queued trackbar event.
HandlerStep == pc = "loop" /\ pending /\ ~pending'

\* A step of the poll loop that handles the result of cv2.waitKey.
KeyStep == pc = "loop" /\ (key' # key \/ stdout' # stdout \/ pc' # pc)

\* C11 as stated: the "Image saved to ..." line is printed only by a press of 's'
\* whose write to the output path succeeded.
C11_MessageOnlyOnSuccess ==
    [][stdout' # stdout => written' = written + 1]_vars

\* C13 as stated: a handler run that raises no error leaves ParameterState equal
\* to the four control positions, also when the window is gone (the controls
\* are read before the guard).
C13_ReadBeforeGuard ==
    [][(HandlerStep /\ warnings' = warnings) => Params' = Positions']_vars

\* C13 as amended: the handler evaluates the guard first.  When the window is
\* gone it reads nothing: ParameterState and the frame stay as they were.  When
\* the window is there it reads the four controls in order into ParameterState,
\* then renders, then draws; an error on the way leaves the fields read so far
\* updated and the frame unchanged.
C13_GuardBeforeRead ==
    [][HandlerStep =>
        /\ ~window => (Params' = Params /\ shown' = shown)
        /\ (window /\ warnings' = warnings) =>
              /\ Params' = Positions
              /\ shown' = process_image(image, ksize_index', alpha', beta', color_channel')
        /\ warnings' # warnings =>
              /\ shown' = shown
              /\ \E k \in 0..4 : \A i \in 1..4 :
                    Params'[i] = IF i <= k THEN Positions[i] ELSE Params[i]]_vars

\* Every queued event was handled, none with an error, and the last one found
\* the window gone: the controls moved and ParameterState did not follow.
C13_Witness ==
    /\ pc = "loop" /\ ~window /\ ~pending /\ events > 0 /\ warnings = 0
    /\ Params # Positions

\* C14: whenever main() is in the poll loop with the window open, no trackbar
\* event waiting for its handler and no handler error so far, ParameterState
\* equals the four control positions and the frame shown is the render of the
\* source image with that ParameterState.
C14_IdleConsistent ==
    (pc = "loop" /\ window /\ ~pending /\ warnings = 0) =>
        /\ Params = Positions
        /\ shown = process_image(image, ksize_index, alpha, beta, color_channel)

C14_Witness ==
    /\ pc = "loop" /\ window /\ ~pending /\ warnings = 0
    /\ events = MaxEvents /\ stdout >= 1
    /\ shown # processed_image

\* C15: the key-handling steps of the poll loop (save, no key, terminate) leave
\* ParameterState, the control positions and the frame shown unchanged; in the
\* loop ParameterState and the frame change only in a handler step; and the
\* source image never changes.
C15_KeysLeaveParameters ==
    [][/\ KeyStep => (Params' = Params /\ trackbar' = trackbar /\ shown' = shown)
       /\ (pc = "loop" /\ (Params' # Params \/ shown' # shown)) => HandlerStep
       /\ image' = image]_vars

C15_Witness ==
    /\ pc = "done" /\ stdout >= 1 /\ events >= 1 /\ ~pending
    /\ shown # processed_image

\* C16 as stated: in every reachable state, startup included, kernelSizeIndex is
\* in 0..6, alpha in 0..10, beta in 0..255 and channel in 0..2.
C16_ParamsInRange ==
    /\ ksize_index \in 0..(Len(kernel_sizes) - 1)
    /\ alpha \in 0..10
    /\ beta \in 0..255
    /\ color_channel \in 0..2

====
